---- MODULE Spec2Model ----
(***************************************************************************)
(* Model of the streaming response-body encoder of actix-http              *)
(* (actix-http/src/encoding/encoder.rs): Encoder::response, the unified    *)
(* body source EncoderBody, the codec ContentEncoder and the poll_next     *)
(* state machine with its single background job slot.                      *)
(***************************************************************************)
EXTENDS Integers, Sequences, FiniteSets, TLC

\* ---------------------------------------------------------------- bounds
\* Number of items (chunks, failures, end markers) the body producer hands
\* to a streaming source over one run.
MaxItems == 3

\* ------------------------------------------------------- program constants
MAX_CHUNK_SIZE_ENCODE_IN_PLACE == 1024

\* A chunk long enough for a compression primitive to write part of its
\* output before it is finished.
BigChunk == 65536

\* Lengths of the chunks a producer may yield: empty, just under the
\* in-place threshold, exactly at it, and far over it.
ChunkLens ==
    {0, MAX_CHUNK_SIZE_ENCODE_IN_PLACE - 1, MAX_CHUNK_SIZE_ENCODE_IN_PLACE, BigChunk}

\* StatusCode values that matter to Encoder::response.
StatusCodes == {200, 204, 101}

\* ContentEncoding
ContentEncoding == {"Auto", "Br", "Deflate", "Gzip", "Zstd", "Identity"}

\* ------------------------------------------------------------------ Bytes
\* A Bytes value: its length and its content as a sequence of pieces.  A
\* piece is <<tag, k, from, to>>: with tag "raw" the bytes from..to of the
\* k-th produced chunk, with tag "z" their compressed form, <<"header", 0,
\* 1, 10>> the header of a gzip stream, <<"trailer", 0, 1, 1>> the last bytes
\* a codec writes when it finishes.
EmptyBytes == [len |-> 0, data |-> <<>>]

RawBytes(k, n) ==
    IF n = 0 THEN EmptyBytes ELSE [len |-> n, data |-> <<<<"raw", k, 1, n>>>>]

\* The first m bytes of a sequence of pieces, and what follows them.
RECURSIVE FrontPieces(_, _)
FrontPieces(ps, m) ==
    IF m = 0 \/ ps = <<>> THEN <<>>
    ELSE LET pc == Head(ps)
             n == pc[4] - pc[3] + 1
         IN  IF n <= m THEN <<pc>> \o FrontPieces(Tail(ps), m - n)
             ELSE <<<<pc[1], pc[2], pc[3], pc[3] + m - 1>>>>

RECURSIVE BackPieces(_, _)
BackPieces(ps, m) ==
    IF m = 0 \/ ps = <<>> THEN ps
    ELSE LET pc == Head(ps)
             n == pc[4] - pc[3] + 1
         IN  IF n <= m THEN BackPieces(Tail(ps), m - n)
             ELSE <<<<pc[1], pc[2], pc[3] + m, pc[4]>>>> \o Tail(ps)

\* The first m bytes of a Bytes value, and the rest of it.
Front(b, m) == [len |-> m, data |-> FrontPieces(b.data, m)]
Back(b, m) == [len |-> b.len - m, data |-> BackPieces(b.data, m)]

Concat(a, b) == [len |-> a.len + b.len, data |-> a.data \o b.data]

IsEmpty(b) == b.len = 0

\* Concatenation of a sequence of Bytes values.
RECURSIVE Flatten(_)
Flatten(chunks) ==
    IF chunks = <<>> THEN EmptyBytes
    ELSE Concat(Head(chunks), Flatten(Tail(chunks)))

None == [some |-> FALSE]
Some(v) == [some |-> TRUE, val |-> v]

\* ---------------------------------------------------------- ContentEncoder
\* The compression primitive behind a ContentEncoder variant: the compressed
\* form of input, piece by piece.  Its length is taken to be that of the
\* input (data that does not compress), which is the case in which a
\* primitive has output to write before it is finished.
Compress(input) ==
    [len |-> input.len,
     data |-> [i \in 1..Len(input.data) |->
                  <<"z", input.data[i][2], input.data[i][3], input.data[i][4]>>]]

\* The ten bytes a gzip stream starts with.
GzHeader == [len |-> 10, data |-> <<<<"header", 0, 1, 10>>>>]

\* What every primitive writes when it finishes, whatever it was given: the
\* last block and the checksum or the end of the frame.
Trailer == [len |-> 1, data |-> <<<<"trailer", 0, 1, 1>>>>]

\* The primitives of deflate, gzip and zstd collect their output in a buffer
\* of this size of their own and pass the buffer on to the sink when it is
\* full, and, full or not, when the next data is written and when they are
\* finished.
OutBlock == 32768

\* The brotli primitive has no such buffer: it passes on to its sink all the
\* output its compressor makes, within the write that makes it.
OwnBuffer(alg) == alg # "Br"

\* The compressor of a primitive puts its output into that buffer in steps
\* of this size.
OutStep == OutBlock \div 2

\* The steps a compressor that holds input of this length can take.
StepsOf(heldLen) == heldLen \div OutStep

\* More steps than a compressor can take in one run.
KeepAll == StepsOf(MaxItems * BigChunk) + 1

\* How many steps a write makes the compressor take is not decided by the
\* length of what was written: it depends on how well the data compresses
\* and on what the compressor keeps back until it is finished.  A write
\* makes it take every step it can but the last ones, as many as one of
\* these: any part of a chunk of the greatest length, or all of them.
Keeps == (0 .. StepsOf(BigChunk) - 1) \cup {KeepAll}

\* Keeping back keep steps is a choice of its own for a compressor that
\* holds input of this length: it differs from keeping everything.
KeepDiffers(keep, heldLen) == keep = KeepAll \/ keep < StepsOf(heldLen)

\* The codec ContentEncoder::encoder builds for a compressing encoding: the
\* primitive and its sink.  header says that the header of a gzip stream is
\* still to be written, held is the input the compressor has not put out the
\* compressed form of, pend is the output in the primitive's own buffer, buf
\* is the sink.
NewCodec(encoding) ==
    [alg |-> encoding, header |-> (encoding = "Gzip"),
     held |-> EmptyBytes, pend |-> EmptyBytes, buf |-> EmptyBytes]

\* ContentEncoder::encoder: a codec for the four compressing encodings, None
\* for every other one and for a zstd encoder whose construction fails.
ContentEncoderNew(encoding, zstdOk) ==
    CASE encoding \in {"Deflate", "Gzip", "Br"} -> Some(NewCodec(encoding))
      [] encoding = "Zstd" -> IF zstdOk THEN Some(NewCodec(encoding)) ELSE None
      [] OTHER -> None

\* ContentEncoder::write: write_all of the primitive.  Nothing is written for
\* empty data, and nothing can fail then.  Otherwise the primitive appends to
\* the sink the header it may still have to write and the buffer the writes
\* before left it with, full or not; its compressor takes the data and puts
\* out the compressed form of the first of what it holds, every step of it
\* but the last keep; of that output a primitive with a buffer of its own
\* passes on every buffer it fills and has more output for, and keeps the
\* last one, and a primitive without one passes on all of it.  out is what
\* this call appended to the sink; fails says that the primitive fails.
ContentEncoderWrite(enc, data, fails, keep) ==
    IF IsEmpty(data)
    THEN [ok |-> TRUE, enc |-> enc, out |-> EmptyBytes]
    ELSE IF fails
    THEN [ok |-> FALSE, enc |-> enc, out |-> EmptyBytes]
    ELSE LET held == Concat(enc.held, data)
             m == OutStep * (IF keep < StepsOf(held.len)
                             THEN StepsOf(held.len) - keep ELSE 0)
             made == Concat(enc.pend, Compress(Front(held, m)))
             passed == IF ~OwnBuffer(enc.alg) THEN made.len
                       ELSE enc.pend.len
                            + (IF m = 0 THEN 0 ELSE OutBlock * ((m - 1) \div OutBlock))
             out == Concat(IF enc.header THEN GzHeader ELSE EmptyBytes,
                           Front(made, passed))
         IN  [ok |-> TRUE,
              enc |-> [enc EXCEPT !.header = FALSE,
                                  !.held = Back(held, m),
                                  !.pend = Back(made, passed),
                                  !.buf = Concat(enc.buf, out)],
              out |-> out]

\* ContentEncoder::take that copies the sink buffer out without clearing it.
ContentEncoderTake_NoReset(enc) ==
    [chunk |-> enc.buf, enc |-> enc]

\* ContentEncoder::take: hands over the sink buffer and leaves it empty.
ContentEncoderTake(enc) ==
    [chunk |-> enc.buf, enc |-> [enc EXCEPT !.buf = EmptyBytes]]

\* ContentEncoder::finish: the primitive writes what it still has to (a
\* header not yet written, the output in its own buffer, the compressed form
\* of the input its compressor kept, its trailer) and the sink buffer is
\* returned; fails says that the primitive's finish fails.
ContentEncoderFinish(enc, fails) ==
    LET tail == Concat(IF enc.header THEN GzHeader ELSE EmptyBytes,
                       Concat(enc.pend, Concat(Compress(enc.held), Trailer)))
    IN  IF fails
        THEN [ok |-> FALSE, chunk |-> EmptyBytes, out |-> EmptyBytes]
        ELSE [ok |-> TRUE, chunk |-> Concat(enc.buf, tail), out |-> tail]

\* ------------------------------------------------------------ poll results
\* Poll<Option<Result<Bytes, EncoderError>>>, plus the panic of the runtime.
Ret(type, bytes, err) == [type |-> type, bytes |-> bytes, err |-> err]
RetPending == Ret("Pending", EmptyBytes, "")
RetEnd == Ret("End", EmptyBytes, "")
RetChunk(bytes) == Ret("Chunk", bytes, "")
RetErr(kind) == Ret("Err", EmptyBytes, kind)
RetPanic == Ret("Panic", EmptyBytes, "")

\* What one call of poll_next did, recorded for the properties.
NowBlank ==
    [srcPolled |-> FALSE, srcReported |-> "", srcPolledOverJob |-> FALSE,
     spawned |-> FALSE, spawnedOverJob |-> FALSE,
     finishCalled |-> FALSE, futAtEntry |-> "none", futResult |-> "none",
     eofAtEntry |-> FALSE, from |-> ""]

NowInit(s) ==
    [NowBlank EXCEPT !.futAtEntry = IF s.fut.some THEN s.fut.val.state ELSE "none",
                     !.eofAtEntry = s.eof]

\* One step of the loop of poll_next: the state after it, and either the
\* value poll_next returns or the request to go round the loop again.
Return(s, ret) == [s |-> s, cont |-> FALSE, ret |-> ret]
Continue(s) == [s |-> s, cont |-> TRUE, ret |-> RetPending]

\* ------------------------------------------------------------- EncoderBody
\* EncoderBody::poll_next.  (The variant defined first yields a buffer of
\* the threshold length or more in two pieces.)  The Bytes variant yields its buffer once; the two
\* stream variants delegate to the wrapped producer, whose next item is the
\* head of its queue (an empty queue is a producer that is not ready), and
\* tag its failure with their own kind.
EncoderBodyPollNext_InPieces(bd, q) ==
    CASE bd.variant = "Bytes" ->
             IF IsEmpty(bd.b)
             THEN [body |-> bd, src |-> q, ret |-> RetEnd]
             ELSE IF bd.b.len < MAX_CHUNK_SIZE_ENCODE_IN_PLACE
             THEN [body |-> [bd EXCEPT !.b = EmptyBytes], src |-> q,
                   ret |-> RetChunk(bd.b)]
             ELSE [body |-> [bd EXCEPT !.b = [@ EXCEPT !.len = 1]], src |-> q,
                   ret |-> RetChunk([bd.b EXCEPT !.len = @ - 1])]
      [] bd.variant = "Stream" ->
             IF q = <<>>
             THEN [body |-> bd, src |-> q, ret |-> RetPending]
             ELSE [body |-> bd, src |-> Tail(q),
                   ret |-> CASE Head(q).type = "Err" -> RetErr("Body")
                             [] Head(q).type = "Chunk" -> RetChunk(Head(q).bytes)
                             [] OTHER -> RetEnd]
      [] OTHER ->
             IF q = <<>>
             THEN [body |-> bd, src |-> q, ret |-> RetPending]
             ELSE [body |-> bd, src |-> Tail(q),
                   ret |-> CASE Head(q).type = "Err" -> RetErr("Boxed")
                             [] Head(q).type = "Chunk" -> RetChunk(Head(q).bytes)
                             [] OTHER -> RetEnd]

EncoderBodyPollNext(bd, q) ==
    CASE bd.variant = "Bytes" ->
             IF IsEmpty(bd.b)
             THEN [body |-> bd, src |-> q, ret |-> RetEnd]
             ELSE [body |-> [bd EXCEPT !.b = EmptyBytes], src |-> q,
                   ret |-> RetChunk(bd.b)]
      [] bd.variant = "Stream" ->
             IF q = <<>>
             THEN [body |-> bd, src |-> q, ret |-> RetPending]
             ELSE [body |-> bd, src |-> Tail(q),
                   ret |-> CASE Head(q).type = "Err" -> RetErr("Body")
                             [] Head(q).type = "Chunk" -> RetChunk(Head(q).bytes)
                             [] OTHER -> RetEnd]
      [] OTHER ->
             IF q = <<>>
             THEN [body |-> bd, src |-> q, ret |-> RetPending]
             ELSE [body |-> bd, src |-> Tail(q),
                   ret |-> CASE Head(q).type = "Err" -> RetErr("Boxed")
                             [] Head(q).type = "Chunk" -> RetChunk(Head(q).bytes)
                             [] OTHER -> RetEnd]

\* BodySize: a known length, or the unknown length of a stream.
Sized(n) == [kind |-> "Sized", n |-> n]
BodySizeStream == [kind |-> "Stream", n |-> 0]

\* EncoderBody::size.  The Bytes variant reports the length of what its
\* buffer holds now; a stream variant reports whatever the producer it wraps
\* reports, which is kept symbolic.
EncoderBodySize(bd) ==
    IF bd.variant = "Bytes" THEN Sized(bd.b.len)
    ELSE [kind |-> "OfProducer", n |-> 0]

\* Encoder::size: the size of the body when the codec field is empty, an
\* unknown length otherwise.
EncoderSize(encOpt, bd) ==
    IF ~encOpt.some THEN EncoderBodySize(bd) ELSE BodySizeStream

\* ----------------------------------------------------- Encoder::poll_next
\* Records a chunk handed to the caller.
Emit(s, bytes, from) ==
    [s EXCEPT !.obs.emitted = Append(@, [bytes |-> bytes, from |-> from]),
              !.now.from = from]

\* The pending-job branch without the suspension on a job that has not
\* completed: the loop goes on to the body source.
PollFut_NoWait(s) ==
    IF ~s.fut.some THEN Continue(s)
    ELSE LET job == s.fut.val IN
         CASE job.state = "running" -> Continue(s)
           [] job.state = "joinerr" ->
                  Return([s EXCEPT !.fut = Some([job EXCEPT !.state = "consumed"]),
                                   !.now.futResult = job.state],
                         RetErr("Blocking"))
           [] job.state = "ioerr" ->
                  Return([s EXCEPT !.fut = Some([job EXCEPT !.state = "consumed"]),
                                   !.now.futResult = job.state],
                         RetErr("Io"))
           [] job.state = "ok" ->
                  LET t == ContentEncoderTake(job.enc)
                      s1 == [s EXCEPT !.encoder = Some(t.enc), !.fut = None,
                                      !.now.futResult = "ok"]
                  IN  IF ~IsEmpty(t.chunk)
                      THEN Return(Emit(s1, t.chunk, "take"), RetChunk(t.chunk))
                      ELSE Continue(s1)
           [] OTHER -> Return(s, RetPanic)

\* The pending-job branch without the emptiness test on what the sink of
\* the recovered codec holds.
PollFut_NoEmptyCheck(s) ==
    IF ~s.fut.some THEN Continue(s)
    ELSE LET job == s.fut.val IN
         CASE job.state = "running" -> Return(s, RetPending)
           [] job.state = "joinerr" ->
                  Return([s EXCEPT !.fut = Some([job EXCEPT !.state = "consumed"]),
                                   !.now.futResult = job.state],
                         RetErr("Blocking"))
           [] job.state = "ioerr" ->
                  Return([s EXCEPT !.fut = Some([job EXCEPT !.state = "consumed"]),
                                   !.now.futResult = job.state],
                         RetErr("Io"))
           [] job.state = "ok" ->
                  LET t == ContentEncoderTake(job.enc)
                      s1 == [s EXCEPT !.encoder = Some(t.enc), !.fut = None,
                                      !.now.futResult = "ok"]
                  IN  Return(Emit(s1, t.chunk, "take"), RetChunk(t.chunk))
           [] OTHER -> Return(s, RetPanic)

\* The pending-job branch that reports a failure to join the job as an
\* I/O failure.
PollFut_JoinAsIo(s) ==
    IF ~s.fut.some THEN Continue(s)
    ELSE LET job == s.fut.val IN
         CASE job.state = "running" -> Return(s, RetPending)
           [] job.state = "joinerr" ->
                  Return([s EXCEPT !.fut = Some([job EXCEPT !.state = "consumed"]),
                                   !.now.futResult = job.state],
                         RetErr("Io"))
           [] job.state = "ioerr" ->
                  Return([s EXCEPT !.fut = Some([job EXCEPT !.state = "consumed"]),
                                   !.now.futResult = job.state],
                         RetErr("Io"))
           [] job.state = "ok" ->
                  LET t == ContentEncoderTake(job.enc)
                      s1 == [s EXCEPT !.encoder = Some(t.enc), !.fut = None,
                                      !.now.futResult = "ok"]
                  IN  IF ~IsEmpty(t.chunk)
                      THEN Return(Emit(s1, t.chunk, "take"), RetChunk(t.chunk))
                      ELSE Continue(s1)
           [] OTHER -> Return(s, RetPanic)

\* The handle branch that gives the codec back from a completed job and
\* leaves the handle in the slot.
PollFut_KeepHandle(s) ==
    IF ~s.fut.some THEN Continue(s)
    ELSE LET job == s.fut.val IN
         CASE job.state = "running" -> Return(s, RetPending)
           [] job.state = "joinerr" ->
                  Return([s EXCEPT !.fut = Some([job EXCEPT !.state = "consumed"]),
                                   !.now.futResult = job.state],
                         RetErr("Blocking"))
           [] job.state = "ioerr" ->
                  Return([s EXCEPT !.fut = Some([job EXCEPT !.state = "consumed"]),
                                   !.now.futResult = job.state],
                         RetErr("Io"))
           [] job.state = "ok" ->
                  LET t == ContentEncoderTake(job.enc)
                      s1 == [s EXCEPT !.encoder = Some(t.enc),
                                      !.fut = Some([job EXCEPT !.state = "consumed"]),
                                      !.now.futResult = "ok"]
                  IN  IF ~IsEmpty(t.chunk)
                      THEN Return(Emit(s1, t.chunk, "take"), RetChunk(t.chunk))
                      ELSE Continue(s1)
           [] OTHER -> Return(s, RetPanic)

\* The handle branch that never sees a job complete: a handle in the slot is
\* reported as not ready whatever the job's state.
PollFut_NeverReady(s) ==
    IF ~s.fut.some THEN Continue(s)
    ELSE Return(s, RetPending)

\* The pending-job branch of the loop: nothing to do without a job; a job
\* that has not completed suspends the poll; a failed job returns its
\* failure and leaves the handle in the slot; a completed job gives the codec
\* back, frees the slot and returns what the codec's sink holds, if anything.
\* Polling a handle whose result was already taken panics in the runtime.
PollFut(s) ==
    IF ~s.fut.some THEN Continue(s)
    ELSE LET job == s.fut.val IN
         CASE job.state = "running" -> Return(s, RetPending)
           [] job.state = "joinerr" ->
                  Return([s EXCEPT !.fut = Some([job EXCEPT !.state = "consumed"]),
                                   !.now.futResult = job.state],
                         RetErr("Blocking"))
           [] job.state = "ioerr" ->
                  Return([s EXCEPT !.fut = Some([job EXCEPT !.state = "consumed"]),
                                   !.now.futResult = job.state],
                         RetErr("Io"))
           [] job.state = "ok" ->
                  LET t == ContentEncoderTake(job.enc)
                      s1 == [s EXCEPT !.encoder = Some(t.enc), !.fut = None,
                                      !.now.futResult = "ok"]
                  IN  IF ~IsEmpty(t.chunk)
                      THEN Return(Emit(s1, t.chunk, "take"), RetChunk(t.chunk))
                      ELSE Continue(s1)
           [] OTHER -> Return(s, RetPanic)

\* What the closure given to spawn_blocking does when the worker pool runs
\* it: it writes the chunk to the codec it owns and returns the codec, or the
\* failure of the write.  job is the handle's view of the job, out what the
\* write appended to the codec's sink.
JobClosure(job, writeFails, keep) ==
    LET w == ContentEncoderWrite(job.enc, job.chunk, writeFails, keep)
    IN  [job |-> [job EXCEPT !.state = IF w.ok THEN "ok" ELSE "ioerr",
                             !.enc = w.enc],
         out |-> w.out]

\* The job in the slot is over: it ran to its end (fate "ok"), its write
\* failed ("ioerr"), or the worker pool gave it up ("joinerr").
JobOver(job, ob, fate, keep) ==
    IF fate = "joinerr"
    THEN [fut |-> Some([job EXCEPT !.state = "joinerr"]),
          obs |-> [ob EXCEPT !.outstanding = @ - 1]]
    ELSE LET c == JobClosure(job, fate = "ioerr", keep)
         IN  [fut |-> Some(c.job),
              obs |-> [ob EXCEPT !.written = Append(@, job.chunk),
                                 !.where = Append(@, "job"),
                                 !.codecOut = Concat(@, c.out),
                                 !.outstanding = @ - 1]]

\* spawn_blocking: the codec and the chunk are moved into a job and its
\* handle is stored in the slot.
Spawn(s, enc, chunk) ==
    [s EXCEPT !.fut = Some([state |-> "running", enc |-> enc, chunk |-> chunk]),
              !.obs.jobs = @ + 1, !.obs.outstanding = @ + 1,
              !.obs.spawned = Append(@, chunk),
              !.now.spawned = TRUE, !.now.spawnedOverJob = s.fut.some]

\* The job runs on another thread: by the time the loop polls its handle, in
\* the same call of poll_next, it may be over already.
JobInCall(s) ==
    IF s.env.jobFate = "running" THEN s
    ELSE LET o == JobOver(s.fut.val, s.obs, s.env.jobFate, s.env.keep)
         IN  [s EXCEPT !.fut = o.fut, !.obs = o.obs]

\* The chunk branch with the emptiness test applied to a chunk passed
\* through without a codec as well.
OnChunk_DropEmpty(s, chunk) ==
    IF s.encoder.some
    THEN LET s0 == [s EXCEPT !.encoder = None] IN
         IF chunk.len < MAX_CHUNK_SIZE_ENCODE_IN_PLACE
         THEN LET w == ContentEncoderWrite(s.encoder.val, chunk, s.env.writeFails,
                                           s.env.keep)
                  s1 == [s0 EXCEPT !.obs.written = Append(@, chunk),
                                   !.obs.where = Append(@, "inline"),
                                   !.obs.codecOut = Concat(@, w.out)]
              IN  IF ~w.ok THEN Return(s1, RetErr("Io"))
                  ELSE LET t == ContentEncoderTake(w.enc)
                           s2 == [s1 EXCEPT !.encoder = Some(t.enc)]
                       IN  IF ~IsEmpty(t.chunk)
                           THEN Return(Emit(s2, t.chunk, "take"), RetChunk(t.chunk))
                           ELSE Continue(s2)
         ELSE Continue(JobInCall(Spawn(s0, s.encoder.val, chunk)))
    ELSE IF ~IsEmpty(chunk)
         THEN Return(Emit(s, chunk, "source"), RetChunk(chunk))
         ELSE Continue(s)

\* The chunk branch with the threshold test off by one: a chunk of exactly
\* the threshold length is written in place.
OnChunk_ThresholdInclusive(s, chunk) ==
    IF s.encoder.some
    THEN LET s0 == [s EXCEPT !.encoder = None] IN
         IF chunk.len <= MAX_CHUNK_SIZE_ENCODE_IN_PLACE
         THEN LET w == ContentEncoderWrite(s.encoder.val, chunk, s.env.writeFails,
                                           s.env.keep)
                  s1 == [s0 EXCEPT !.obs.written = Append(@, chunk),
                                   !.obs.where = Append(@, "inline"),
                                   !.obs.codecOut = Concat(@, w.out)]
              IN  IF ~w.ok THEN Return(s1, RetErr("Io"))
                  ELSE LET t == ContentEncoderTake(w.enc)
                           s2 == [s1 EXCEPT !.encoder = Some(t.enc)]
                       IN  IF ~IsEmpty(t.chunk)
                           THEN Return(Emit(s2, t.chunk, "take"), RetChunk(t.chunk))
                           ELSE Continue(s2)
         ELSE Continue(JobInCall(Spawn(s0, s.encoder.val, chunk)))
    ELSE Return(Emit(s, chunk, "source"), RetChunk(chunk))

\* The source yielded a chunk: without a codec it is returned unchanged; a
\* chunk under the threshold is written to the codec in place and the sink
\* is drained; any other chunk is moved with the codec into a background job.
OnChunk(s, chunk) ==
    IF s.encoder.some
    THEN LET s0 == [s EXCEPT !.encoder = None] IN
         IF chunk.len < MAX_CHUNK_SIZE_ENCODE_IN_PLACE
         THEN LET w == ContentEncoderWrite(s.encoder.val, chunk, s.env.writeFails,
                                           s.env.keep)
                  s1 == [s0 EXCEPT !.obs.written = Append(@, chunk),
                                   !.obs.where = Append(@, "inline"),
                                   !.obs.codecOut = Concat(@, w.out)]
              IN  IF ~w.ok THEN Return(s1, RetErr("Io"))
                  ELSE LET t == ContentEncoderTake(w.enc)
                           s2 == [s1 EXCEPT !.encoder = Some(t.enc)]
                       IN  IF ~IsEmpty(t.chunk)
                           THEN Return(Emit(s2, t.chunk, "take"), RetChunk(t.chunk))
                           ELSE Continue(s2)
         ELSE Continue(JobInCall(Spawn(s0, s.encoder.val, chunk)))
    ELSE Return(Emit(s, chunk, "source"), RetChunk(chunk))

\* The end branch that returns the codec's last bytes without setting eof.
OnEnd_NoEof(s) ==
    IF s.encoder.some
    THEN LET f == ContentEncoderFinish(s.encoder.val, s.env.finishFails)
             s1 == [s EXCEPT !.encoder = None,
                             !.obs.finishCalls = @ + 1,
                             !.obs.finishRet = IF ~f.ok THEN "err"
                                               ELSE IF IsEmpty(f.chunk) THEN "empty"
                                               ELSE "chunk",
                             !.obs.codecOut = Concat(@, f.out),
                             !.now.finishCalled = TRUE]
         IN  IF ~f.ok THEN Return(s1, RetErr("Io"))
             ELSE IF IsEmpty(f.chunk) THEN Return(s1, RetEnd)
             ELSE Return(Emit(s1, f.chunk, "finish"), RetChunk(f.chunk))
    ELSE Return(s, RetEnd)

\* The source reported its end: a codec is finished and its last bytes, if
\* any, are returned as the final chunk with eof set; otherwise the stream
\* ends.
OnEnd(s) ==
    IF s.encoder.some
    THEN LET f == ContentEncoderFinish(s.encoder.val, s.env.finishFails)
             s1 == [s EXCEPT !.encoder = None,
                             !.obs.finishCalls = @ + 1,
                             !.obs.finishRet = IF ~f.ok THEN "err"
                                               ELSE IF IsEmpty(f.chunk) THEN "empty"
                                               ELSE "chunk",
                             !.obs.codecOut = Concat(@, f.out),
                             !.now.finishCalled = TRUE]
         IN  IF ~f.ok THEN Return(s1, RetErr("Io"))
             ELSE IF IsEmpty(f.chunk) THEN Return(s1, RetEnd)
             ELSE Return(Emit([s1 EXCEPT !.eof = TRUE], f.chunk, "finish"),
                         RetChunk(f.chunk))
    ELSE Return(s, RetEnd)

\* The source failed: the failure is returned as it is.
OnErr(s, ret) == Return(s, ret)

\* Polls the body source and records what it reported.
PollBody(s) ==
    LET p == EncoderBodyPollNext(s.body, s.src)
        s1 == [s EXCEPT !.body = p.body, !.src = p.src,
                        !.now.srcPolled = TRUE,
                        !.now.srcReported = p.ret.type,
                        !.now.srcPolledOverJob =
                            @ \/ (s.fut.some /\ s.fut.val.state = "running"),
                        !.obs.polledAfterEnd = @ \/ s.obs.srcEnded,
                        !.obs.srcEnded = @ \/ p.ret.type = "End",
                        !.obs.srcChunks = IF p.ret.type = "Chunk"
                                          THEN Append(@, p.ret.bytes) ELSE @]
    IN  [s |-> s1, ret |-> p.ret]

\* One iteration of the loop of poll_next.
LoopBody(s) ==
    IF s.eof THEN Return(s, RetEnd)
    ELSE LET f == PollFut(s) IN
         IF ~f.cont THEN f
         ELSE LET p == PollBody(f.s) IN
              CASE p.ret.type = "Pending" -> Return(p.s, RetPending)
                [] p.ret.type = "Err" -> OnErr(p.s, p.ret)
                [] p.ret.type = "Chunk" -> OnChunk(p.s, p.ret.bytes)
                [] OTHER -> OnEnd(p.s)

\* What is not decided by the encoder in one iteration of the loop, which
\* makes at most one codec call: whether that call fails, and what has become
\* of a job by the time its handle is polled in the call that submitted it,
\* and how many steps of output the compressor of the primitive keeps back.
Env(fails, fate, keep) ==
    [writeFails |-> fails, finishFails |-> fails, jobFate |-> fate,
     keep |-> keep]

EnvNone == Env(FALSE, "running", KeepAll)

\* The same of a run in which no codec call fails and every job is run.
LiveEnvs == {Env(FALSE, fate, k) : fate \in {"running", "ok"}, k \in Keeps}

Envs == LiveEnvs \cup {Env(TRUE, "ioerr", KeepAll), Env(FALSE, "joinerr", KeepAll)}

\* The input the compressor holds after the write an iteration of the loop
\* makes or submits: what the codec of the encoder, held by it or returned by
\* its job, holds, and the chunk the body source yields next; nothing when
\* the iteration writes nothing.
HeldLen(s) ==
    LET p == EncoderBodyPollNext(s.body, s.src)
        codec == IF s.encoder.some THEN s.encoder.val ELSE s.fut.val.enc
    IN  IF p.ret.type = "Chunk" /\ ~IsEmpty(p.ret.bytes)
        THEN codec.held.len + p.ret.bytes.len
        ELSE 0

\* An iteration of an encoder that holds no codec and awaits none makes no
\* codec call, and choices that make no difference to the compressor are
\* taken once.
IterEnvs(s) ==
    IF s.encoder.some \/ s.fut.some
    THEN {e \in s.envs : KeepDiffers(e.keep, HeldLen(s))}
    ELSE {EnvNone}

\* Encoder::poll_next: the loop, run until an iteration returns; the set of
\* the results the call can have.
RECURSIVE PollNext(_)
PollNext(s) ==
    LET outs == {LoopBody([s EXCEPT !.env = e]) : e \in IterEnvs(s)}
    IN  UNION {IF o.cont THEN PollNext(o.s) ELSE {o} : o \in
                  {[r EXCEPT !.s.env = EnvNone] : r \in outs}}

\* ------------------------------------------------------ Encoder::response
\* ContentEncoding::as_str: the header value of an encoding.
as_str(enc) ==
    CASE enc = "Br" -> "br"
      [] enc = "Gzip" -> "gzip"
      [] enc = "Deflate" -> "deflate"
      [] enc = "Zstd" -> "zstd"
      [] enc = "Identity" -> "identity"
      [] OTHER -> "auto"

\* update_head: sets the Content-Encoding header to the encoding's name.
update_head(enc, h) == [h EXCEPT !.ce = as_str(enc)]

\* ResponseHead::no_chunking(false) as called by Encoder::response.
no_chunking(h, val) == [h EXCEPT !.noChunking = val]

\* can_encode without the test for 204 No Content.
CanEncode_NoNoContent(enc, h) ==
    ~(h.ce # "absent"
      \/ h.status = 101
      \/ enc = "Identity"
      \/ enc = "Auto")

\* can_encode of Encoder::response.
CanEncode(enc, h) ==
    ~(h.ce # "absent"
      \/ h.status = 101
      \/ h.status = 204
      \/ enc = "Identity"
      \/ enc = "Auto")

\* Encoder::response without the call of no_chunking.
EncoderResponse_KeepFraming(enc, h, inb, codec) ==
    LET can_encode == CanEncode(enc, h)
        ebody == CASE inb.shape = "Bytes" -> [variant |-> "Bytes", b |-> inb.buf]
                   [] inb.shape = "Message" -> [variant |-> "BoxedStream", b |-> EmptyBytes]
                   [] OTHER -> [variant |-> "Stream", b |-> EmptyBytes]
    IN  IF inb.shape \in {"None", "Empty"} \/ (inb.shape = "Bytes" /\ ~can_encode)
        THEN [kind |-> "Other", head |-> h,
              body |-> [variant |-> inb.shape, b |-> inb.buf], encoder |-> None]
        ELSE IF can_encode /\ codec.some
        THEN [kind |-> "Encoder", head |-> update_head(enc, h),
              body |-> ebody, encoder |-> codec]
        ELSE [kind |-> "Encoder", head |-> h, body |-> ebody, encoder |-> None]

\* Encoder::response that updates the head as soon as can_encode holds,
\* before it knows that a codec could be constructed.
EncoderResponse_HeadFirst(enc, h, inb, codec) ==
    LET can_encode == CanEncode(enc, h)
        ebody == CASE inb.shape = "Bytes" -> [variant |-> "Bytes", b |-> inb.buf]
                   [] inb.shape = "Message" -> [variant |-> "BoxedStream", b |-> EmptyBytes]
                   [] OTHER -> [variant |-> "Stream", b |-> EmptyBytes]
    IN  IF inb.shape \in {"None", "Empty"} \/ (inb.shape = "Bytes" /\ ~can_encode)
        THEN [kind |-> "Other", head |-> h,
              body |-> [variant |-> inb.shape, b |-> inb.buf], encoder |-> None]
        ELSE IF can_encode
        THEN [kind |-> "Encoder", head |-> no_chunking(update_head(enc, h), FALSE),
              body |-> ebody, encoder |-> codec]
        ELSE [kind |-> "Encoder", head |-> h, body |-> ebody, encoder |-> None]

\* Encoder::response: the head and the body it returns for a requested
\* encoding; codec is the result of ContentEncoder::encoder for it.  An
\* Other result is the body it was given; an Encoder result names the
\* fields of the Encoder built.
EncoderResponse(enc, h, inb, codec) ==
    LET can_encode == CanEncode(enc, h)
        ebody == CASE inb.shape = "Bytes" -> [variant |-> "Bytes", b |-> inb.buf]
                   [] inb.shape = "Message" -> [variant |-> "BoxedStream", b |-> EmptyBytes]
                   [] OTHER -> [variant |-> "Stream", b |-> EmptyBytes]
    IN  IF inb.shape \in {"None", "Empty"} \/ (inb.shape = "Bytes" /\ ~can_encode)
        THEN [kind |-> "Other", head |-> h,
              body |-> [variant |-> inb.shape, b |-> inb.buf], encoder |-> None]
        ELSE IF can_encode /\ codec.some
        THEN [kind |-> "Encoder", head |-> no_chunking(update_head(enc, h), FALSE),
              body |-> ebody, encoder |-> codec]
        ELSE [kind |-> "Encoder", head |-> h, body |-> ebody, encoder |-> None]

\* ------------------------------------------------------------------ state
VARIABLES
    head,       \* ResponseHead: status, Content-Encoding header, NO_CHUNKING flag
    stage,      \* "request" before Encoder::response, then the kind of body returned
    request,    \* the arguments of Encoder::response: encoding and body
    eof,        \* Encoder.eof
    body,       \* Encoder.body
    encoder,    \* Encoder.encoder
    fut,        \* Encoder.fut and the state of the job behind the handle
    src,        \* items the wrapped producer has ready, oldest first
    produced,   \* number of items the producer has made
    last,       \* what the last call of poll_next returned and did
    obs         \* history of the stream, for the properties

vars == <<head, stage, request, eof, body, encoder, fut, src, produced, last, obs>>

ObsInit ==
    [emitted |-> <<>>,          \* chunks poll_next returned, with their origin
     written |-> <<>>,          \* chunks passed to ContentEncoder::write
     where |-> <<>>,            \* for each of them: "inline" or "job"
     spawned |-> <<>>,          \* chunks moved into a job
     codecOut |-> EmptyBytes,   \* all the codec put in its sink or returned from finish
     srcChunks |-> <<>>,        \* chunks the body source yielded
     srcEnded |-> FALSE,        \* the body source has reported its end
     polledAfterEnd |-> FALSE,  \* the body source was polled after that
     finishCalls |-> 0,         \* calls of ContentEncoder::finish
     finishRet |-> "none",      \* what finish returned: "err", "empty", "chunk"
     jobs |-> 0,                \* jobs given to spawn_blocking
     outstanding |-> 0,         \* jobs given to spawn_blocking and not yet over
     errors |-> <<>>,           \* kinds of the failures poll_next returned
     installed |-> FALSE]       \* the encoder was built with a codec

InputBodies ==
    {[shape |-> sh, buf |-> EmptyBytes] : sh \in {"None", "Empty", "Message", "Body"}}
    \cup {[shape |-> "Bytes", buf |-> RawBytes(0, n)] : n \in ChunkLens}

Init ==
    /\ head \in [status : StatusCodes, ce : {"absent", "preset"}, noChunking : BOOLEAN]
    /\ stage = "request"
    /\ request = [encoding |-> "Auto", body |-> [shape |-> "None", buf |-> EmptyBytes]]
    /\ eof = FALSE
    /\ body = [variant |-> "Stream", b |-> EmptyBytes]
    /\ encoder = None
    /\ fut = None
    /\ src = <<>>
    /\ produced = 0
    /\ last = [ret |-> Ret("None", EmptyBytes, ""), now |-> NowBlank]
    /\ obs = ObsInit

\* Encoder::response called with a requested encoding and a body.
Response(enc, inb, zstdOk) ==
    /\ stage = "request"
    /\ LET r == EncoderResponse(enc, head, inb,
                    ContentEncoderNew(enc, zstdOk))
       IN  /\ head' = r.head
           /\ stage' = r.kind
           /\ body' = r.body
           /\ encoder' = r.encoder
           /\ obs' = [obs EXCEPT !.installed = r.encoder.some]
    /\ request' = [encoding |-> enc, body |-> inb]
    /\ eof' = FALSE
    /\ fut' = None
    /\ UNCHANGED <<src, produced, last>>

\* The producer behind a stream body makes its next item ready.
Produce(item) ==
    /\ stage = "Encoder"
    /\ body.variant \in {"Stream", "BoxedStream"}
    /\ produced < MaxItems
    /\ src' = Append(src, item)
    /\ produced' = produced + 1
    /\ UNCHANGED <<head, stage, request, eof, body, encoder, fut, last, obs>>

Items(k) ==
    {[type |-> "Chunk", bytes |-> RawBytes(k, n)] : n \in ChunkLens}
    \cup {[type |-> "Err", bytes |-> EmptyBytes], [type |-> "End", bytes |-> EmptyBytes]}

\* The encoder's fields as one call of poll_next finds them; envs is what
\* the codec and the worker pool may do during the call.
PollEntry(envs) ==
    LET s0 == [eof |-> eof, body |-> body, encoder |-> encoder, fut |-> fut,
               src |-> src, obs |-> obs, now |-> NowBlank,
               env |-> EnvNone, envs |-> envs]
    IN  [s0 EXCEPT !.now = NowInit(s0)]

\* The consumer calls Encoder::poll_next, which returns one of the results
\* the codec and the worker pool allow.
Poll(envs) ==
    /\ stage = "Encoder"
    /\ \E r \in PollNext(PollEntry(envs)) :
           /\ eof' = r.s.eof
           /\ body' = r.s.body
           /\ encoder' = r.s.encoder
           /\ fut' = r.s.fut
           /\ src' = r.s.src
           /\ obs' = IF r.ret.type = "Err"
                     THEN [r.s.obs EXCEPT !.errors = Append(@, r.ret.err)]
                     ELSE r.s.obs
           /\ last' = [ret |-> r.ret, now |-> r.s.now]
    /\ UNCHANGED <<head, stage, request, produced>>

\* The worker pool runs the closure given to spawn_blocking between two
\* calls of poll_next: it writes the chunk to the codec it owns and returns
\* the codec, or the write's failure.
JobRun(writeFails) ==
    /\ fut.some /\ fut.val.state = "running"
    /\ \E keep \in Keeps :
           /\ KeepDiffers(keep, fut.val.enc.held.len + fut.val.chunk.len)
           /\ LET o == JobOver(fut.val, obs,
                               IF writeFails THEN "ioerr" ELSE "ok", keep)
              IN  fut' = o.fut /\ obs' = o.obs
    /\ UNCHANGED <<head, stage, request, eof, body, encoder, src, produced, last>>

\* The worker pool fails to run the job (JoinError).
JobJoinFail ==
    /\ fut.some /\ fut.val.state = "running"
    /\ LET o == JobOver(fut.val, obs, "joinerr", KeepAll)
       IN  fut' = o.fut /\ obs' = o.obs
    /\ UNCHANGED <<head, stage, request, eof, body, encoder, src, produced, last>>

Next ==
    \/ \E enc \in ContentEncoding, inb \in InputBodies, zstdOk \in BOOLEAN :
          Response(enc, inb, zstdOk)
    \/ \E item \in Items(produced + 1) : Produce(item)
    \/ Poll(Envs)
    \/ \E writeFails \in BOOLEAN : JobRun(writeFails)
    \/ JobJoinFail

Spec == Init /\ [][Next]_vars

\* ---------------------------------------------------- a run without failure
\* The producer has made its end ready, or the encoder has already seen it.
SourceEndProduced ==
    obs.srcEnded \/ \E i \in DOMAIN src : src[i].type = "End"

\* What a finite producer that never fails can make ready as its k-th item:
\* a chunk while it has room for its end after it, or its end.
LiveItems(k) ==
    {[type |-> "Chunk", bytes |-> RawBytes(k, n)] :
        n \in IF k < MaxItems THEN ChunkLens ELSE {}}
    \cup {[type |-> "End", bytes |-> EmptyBytes]}

\* The finite producer makes its next item ready, and none after its end.
ProduceLive ==
    /\ ~SourceEndProduced
    /\ \E item \in LiveItems(produced + 1) : Produce(item)

\* The consumer polls until the stream has ended; no codec call fails and
\* no job is given up.
PollLive ==
    /\ last.ret.type # "End"
    /\ Poll(LiveEnvs)

\* ENABLED <<PollLive>>_vars as a state predicate: the consumer has not seen
\* the end and a poll now would change the state.
PollLiveEnabled ==
    /\ stage = "Encoder"
    /\ last.ret.type # "End"
    /\ \E r \in PollNext(PollEntry(LiveEnvs)) :
           <<r.s.eof, r.s.body, r.s.encoder, r.s.fut, r.s.src, r.s.obs,
             [ret |-> r.ret, now |-> r.s.now]>>
               # <<eof, body, encoder, fut, src, obs, last>>

\* WF_vars(PollLive), written with that predicate.
PollLiveFair == []<>(~PollLiveEnabled) \/ []<><<PollLive>>_vars

\* The worker pool runs the job to a successful end.
JobRunLive == JobRun(FALSE)

\* ENABLED <<JobRunLive>>_vars as a state predicate: a job is in the slot and
\* has not been run; running it changes its state.
JobRunLiveEnabled == fut.some /\ fut.val.state = "running"

\* WF_vars(JobRunLive), written with that predicate.
JobRunLiveFair == []<>(~JobRunLiveEnabled) \/ []<><<JobRunLive>>_vars

NextLive ==
    \/ \E enc \in ContentEncoding, inb \in InputBodies, zstdOk \in BOOLEAN :
          Response(enc, inb, zstdOk)
    \/ ProduceLive
    \/ PollLive
    \/ JobRunLive

\* The scheduling the code relies on: a consumer that polls again after every
\* Pending and every chunk, a worker pool that runs every job it is given,
\* and a producer that reaches its end.
SpecLive ==
    /\ Init /\ [][NextLive]_vars
    /\ PollLiveFair /\ JobRunLiveFair /\ WF_vars(ProduceLive)

\* ============================================================= properties
\* The chunks poll_next has returned, in order.
EmittedBytes == [i \in DOMAIN obs.emitted |-> obs.emitted[i].bytes]

\* poll_next has returned a failure of the body source.
SrcFailed == \E i \in DOMAIN obs.errors : obs.errors[i] \in {"Body", "Boxed"}

\* poll_next has returned a failure of the codec or of the worker pool.
CodecFailed == \E i \in DOMAIN obs.errors : obs.errors[i] \in {"Io", "Blocking"}

\* No failure has been returned and no job has failed.
FailureFree ==
    /\ obs.errors = <<>>
    /\ last.ret.type # "Panic"
    /\ fut.some => fut.val.state \in {"running", "ok"}

\* The body returned by Encoder::response yields what the body it was given
\* yields: it is that body, or an encoder that has returned exactly the
\* chunks its source yielded, without a job.
PassThroughIdentity ==
    CASE stage = "Encoder" -> EmittedBytes = obs.srcChunks /\ obs.jobs = 0
      [] stage = "Other" -> body = [variant |-> request.body.shape, b |-> request.body.buf]
      [] OTHER -> TRUE

\* C1: at most one background job is outstanding, a job is submitted only
\* when the job slot is empty, and the slot holds a handle only from the
\* submission of its job until the poll that observes the job's completion.
C1_SingleJobSlot ==
    /\ obs.outstanding <= 1
    /\ ~last.now.spawnedOverJob
    /\ fut.some => fut.val.state # "consumed"

\* C2: a poll that finds the pending job not completed returns Pending
\* without polling the body source, and the source is never polled while a
\* job is running.
C2_NoSourcePollWhileJobPending ==
    /\ last.now.futAtEntry = "running" =>
           last.ret.type = "Pending" /\ ~last.now.srcPolled
    /\ ~last.now.srcPolledOverJob

C2_Witness ==
    /\ last.now.futAtEntry = "running"
    /\ last.ret.type = "Pending"
    /\ src # <<>>

\* C3: finish is called at most once and only in a poll in which the source
\* reported its end; its non-empty result is returned exactly once, as the
\* last chunk.
C3_FinishOnceLastChunk ==
    LET fin == {i \in DOMAIN obs.emitted : obs.emitted[i].from = "finish"} IN
    /\ obs.finishCalls <= 1
    /\ last.now.finishCalled => last.now.srcReported = "End"
    /\ Cardinality(fin) <= 1
    /\ fin \subseteq {Len(obs.emitted)}
    /\ obs.finishRet = "chunk" <=> fin # {}

C3_Witness ==
    /\ obs.finishRet = "chunk"
    /\ obs.errors = <<>>
    /\ Len(obs.emitted) >= 2
    /\ obs.emitted[Len(obs.emitted)].from = "finish"

\* C4: once poll_next has returned a failure of the body source, no later
\* poll returns another failure or a chunk, and finish is not called.
C4_SourceFailureTerminal ==
    [][SrcFailed =>
         /\ obs'.errors = obs.errors
         /\ obs'.emitted = obs.emitted
         /\ obs'.finishCalls = obs.finishCalls]_vars

\* C5: once poll_next has returned a failure of the codec or of the worker
\* pool, no later poll returns a chunk.
C5_CodecFailureTerminal ==
    [][CodecFailed => obs'.emitted = obs.emitted]_vars

\* C6 as stated: every chunk poll_next returns has non-zero length.
C6_NoEmptyChunk ==
    \A i \in DOMAIN obs.emitted : ~IsEmpty(obs.emitted[i].bytes)

\* C6 as amended: every chunk poll_next returns has non-zero length, except
\* a zero-length chunk of the source returned unchanged by an encoder that
\* holds no codec.
C6_NoEmptyCodecChunk ==
    \A i \in DOMAIN obs.emitted :
        IsEmpty(obs.emitted[i].bytes) => obs.emitted[i].from = "source"

C6_Witness ==
    /\ obs.jobs >= 2
    /\ \E i \in DOMAIN obs.emitted :
           obs.emitted[i].from = "take" /\ ~IsEmpty(obs.emitted[i].bytes)
    /\ \E i \in DOMAIN obs.emitted :
           obs.emitted[i].from = "finish" /\ Len(obs.emitted[i].bytes.data) >= 3

\* C7: once the body source has reported its end, it is not polled again.
C7_NoPollAfterEnd == ~obs.polledAfterEnd

\* C8: for an Identity or Auto selection Encoder::response adds no
\* Content-Encoding header, and the body it returns yields the chunks of
\* the source, in order, without a codec and without a job.
C8_IdentityPassThrough ==
    /\ [](request.encoding \in {"Identity", "Auto"} /\ stage # "request" =>
              PassThroughIdentity /\ ~obs.installed)
    /\ [][stage = "request" /\ request'.encoding \in {"Identity", "Auto"} =>
              head'.ce = head.ce]_vars

C8_Witness ==
    /\ request.encoding = "Identity"
    /\ stage = "Encoder"
    /\ Len(obs.emitted) >= 2
    /\ \E i \in DOMAIN obs.emitted : IsEmpty(obs.emitted[i].bytes)

\* The pieces of a Bytes value with the pieces that follow one another in the
\* same chunk joined: two values have the same bytes when these are equal.
RECURSIVE JoinPieces(_)
JoinPieces(ps) ==
    IF Len(ps) < 2 THEN ps
    ELSE IF ps[1][1] = ps[2][1] /\ ps[1][2] = ps[2][2] /\ ps[1][4] + 1 = ps[2][3]
    THEN JoinPieces(<<<<ps[1][1], ps[1][2], ps[1][3], ps[2][4]>>>> \o SubSeq(ps, 3, Len(ps)))
    ELSE <<ps[1]>> \o JoinPieces(Tail(ps))

SameBytes(a, b) == a.len = b.len /\ JoinPieces(a.data) = JoinPieces(b.data)

\* The complete output of a codec of this encoding for this input, and what
\* it has put out of it when it has still to finish.
CompleteOutput(encoding, input) ==
    Concat(IF encoding = "Gzip" THEN GzHeader ELSE EmptyBytes,
           Concat(Compress(input), Trailer))

\* C9: on a failure-free run of an encoder with a codec, up to the end of
\* the source, the chunks written to the codec are the chunks the source
\* yielded, in order, and the chunks returned, followed by what the sink
\* still holds, are the codec's output; after finish they are all of it.
\* The chunks returned, followed by what the sink, the primitive's buffer and
\* the compressor still hold, are the compressed form of the chunks written,
\* byte for byte and in order, and after finish the complete output for them.
C9_NoByteLostOrDuplicated ==
    (obs.installed /\ FailureFree /\ ~obs.polledAfterEnd) =>
        LET inJob == IF fut.some /\ fut.val.state = "running"
                     THEN <<fut.val.chunk>> ELSE <<>>
            codec == IF fut.some THEN Some(fut.val.enc) ELSE encoder
            sink == IF codec.some THEN codec.val.buf ELSE EmptyBytes
            inside == IF codec.some
                      THEN Concat(codec.val.pend, Compress(codec.val.held))
                      ELSE EmptyBytes
            sofar == Concat(IF codec.some /\ codec.val.alg = "Gzip" /\ ~codec.val.header
                            THEN GzHeader ELSE EmptyBytes,
                            Compress(Flatten(obs.written)))
        IN  /\ obs.written \o inJob = obs.srcChunks
            /\ Concat(Flatten(EmittedBytes), sink) = obs.codecOut
            /\ obs.finishRet # "none" => Flatten(EmittedBytes) = obs.codecOut
            /\ codec.some =>
                   SameBytes(Concat(Flatten(EmittedBytes), Concat(sink, inside)), sofar)
            /\ ~codec.some =>
                   /\ obs.finishRet = "chunk"
                   /\ SameBytes(Flatten(EmittedBytes),
                                CompleteOutput(request.encoding, Flatten(obs.srcChunks)))

\* A run of that kind in which a job's write left output in the primitive's
\* buffer and the in-place write after it handed it over: a chunk written by
\* a job is followed by one written in place, and a chunk of compressed data
\* shorter than a buffer was returned before finish.
C9_Witness ==
    /\ obs.installed /\ FailureFree /\ ~obs.polledAfterEnd
    /\ obs.finishRet = "chunk"
    /\ \E i \in DOMAIN obs.written :
           /\ i + 1 \in DOMAIN obs.written
           /\ obs.where[i] = "job" /\ obs.where[i + 1] = "inline"
           /\ obs.written[i + 1].len > 0
    /\ \E i \in DOMAIN obs.emitted :
           /\ obs.emitted[i].from = "take"
           /\ obs.emitted[i].bytes.len < OutBlock
           /\ obs.emitted[i].bytes.data[1][1] = "z"
    /\ \E i \in DOMAIN obs.emitted :
           /\ obs.emitted[i].from = "take"
           /\ obs.emitted[i].bytes.len >= OutBlock
    /\ Len(obs.emitted) >= 3

\* C10: for a head that carries a Content-Encoding header or has status 204
\* or 101, Encoder::response leaves the head unchanged, whatever the
\* encoding and the body, and the body it returns yields the chunks of the
\* source unchanged.
C10_ForbiddenHeadUntouched ==
    /\ []((stage # "request" /\ (head.ce = "preset" \/ head.status \in {204, 101})) =>
              PassThroughIdentity /\ ~obs.installed)
    /\ [][(stage = "request" /\ (head.ce # "absent" \/ head.status \in {204, 101})) =>
              head' = head]_vars

C10_Witness ==
    /\ head.status = 204
    /\ request.encoding = "Gzip"
    /\ stage = "Encoder"
    /\ Len(obs.emitted) >= 1

\* The head and the requested encoding allow encoding: no Content-Encoding
\* header yet, a status that is neither 204 nor 101, a compressing encoding.
Encodable(h, enc) ==
    /\ h.ce = "absent"
    /\ h.status \notin {204, 101}
    /\ enc \in {"Br", "Deflate", "Gzip", "Zstd"}

\* The head after Encoder::response has set it up for the encoding.
EncodedHead(h, enc) == [h EXCEPT !.ce = as_str(enc), !.noChunking = FALSE]

\* C11 as stated: whenever the head and the encoding allow it and a codec
\* can be constructed, Encoder::response sets the Content-Encoding header,
\* clears the no-chunking flag and installs an encoder holding the codec,
\* whatever the shape of the body; otherwise it leaves the head as it is.
C11_EncodesEveryShape ==
    [][stage = "request" /\ stage' # "request" =>
         IF /\ Encodable(head, request'.encoding)
            /\ request'.encoding = "Zstd" => encoder'.some
         THEN /\ head' = EncodedHead(head, request'.encoding)
              /\ stage' = "Encoder"
              /\ encoder'.some /\ encoder'.val.alg = request'.encoding
         ELSE head' = head /\ ~encoder'.some]_vars

\* C11 as amended: the same for a body of materialized bytes, a typed stream
\* or a type-erased stream; for a body that is none or empty the head is
\* left as it is and no encoder is installed.
C11_EncodesBodiesWithContent ==
    [][stage = "request" /\ stage' # "request" =>
         IF /\ Encodable(head, request'.encoding)
            /\ request'.encoding = "Zstd" => encoder'.some
            /\ request'.body.shape \notin {"None", "Empty"}
         THEN /\ head' = EncodedHead(head, request'.encoding)
              /\ stage' = "Encoder"
              /\ encoder'.some /\ encoder'.val.alg = request'.encoding
         ELSE head' = head /\ ~encoder'.some]_vars

C11_Witness ==
    /\ stage = "Encoder"
    /\ request.encoding = "Deflate"
    /\ request.body.shape = "Message"
    /\ head = [status |-> 200, ce |-> "deflate", noChunking |-> FALSE]
    /\ encoder.some
    /\ last.ret.type = "None"

\* C12: when the codec cannot be constructed for the requested encoding,
\* Encoder::response leaves the head as it is and returns a body that
\* yields the chunks of the source unchanged; a materialized buffer is
\* yielded exactly once.
C12_ConstructionFailurePassThrough ==
    /\ [][(/\ stage = "request" /\ stage' # "request"
           /\ request'.encoding = "Zstd"
           /\ Encodable(head, request'.encoding)
           /\ request'.body.shape \notin {"None", "Empty"}
           /\ ~encoder'.some) =>
              head' = head /\ stage' = "Encoder"]_vars
    /\ []((/\ stage = "Encoder"
           /\ request.encoding = "Zstd"
           /\ Encodable(head, request.encoding)
           /\ ~obs.installed) =>
              /\ PassThroughIdentity
              /\ (body.variant = "Bytes" /\ last.ret.type # "None") =>
                     EmittedBytes = IF IsEmpty(request.body.buf) THEN <<>>
                                    ELSE <<request.body.buf>>)

C12_Witness ==
    /\ stage = "Encoder"
    /\ request.encoding = "Zstd"
    /\ Encodable(head, request.encoding)
    /\ ~obs.installed
    /\ body.variant = "Bytes"
    /\ Len(obs.emitted) = 1
    /\ last.ret.type = "End"
    /\ obs.polledAfterEnd

\* C13: a failure poll_next returns has the kind of its origin: Blocking
\* for a job that could not be joined, Io for a write that failed in the
\* job or in place and for a finish that failed, Body for a failure of a
\* typed stream and Boxed for a failure of a type-erased stream.
C13_FailureKindOfOrigin ==
    last.ret.type = "Err" =>
        last.ret.err =
            CASE last.now.futResult = "joinerr" -> "Blocking"
              [] last.now.futResult = "ioerr" -> "Io"
              [] last.now.srcReported = "Err" /\ body.variant = "Stream" -> "Body"
              [] last.now.srcReported = "Err" /\ body.variant = "BoxedStream" -> "Boxed"
              [] last.now.srcReported = "Chunk" -> "Io"
              [] last.now.srcReported = "End" /\ last.now.finishCalled -> "Io"
              [] OTHER -> "unknown origin"

C13_Witness ==
    /\ last.ret = RetErr("Blocking")
    /\ last.now.futAtEntry = "none" /\ last.now.spawned
    /\ "Body" \in {obs.errors[i] : i \in DOMAIN obs.errors}

\* A chunk under the in-place threshold, and one at or over it.
IsSmall(chunk) == chunk.len < 1024
IsLarge(chunk) == chunk.len >= 1024

\* The chunks written to the codec on the calling context.
WrittenInline ==
    LET idx == {i \in DOMAIN obs.written : obs.where[i] = "inline"}
        RECURSIVE Pick(_)
        Pick(i) == IF i > Len(obs.written) THEN <<>>
                   ELSE (IF i \in idx THEN <<obs.written[i]>> ELSE <<>>) \o Pick(i + 1)
    IN  Pick(1)

\* C15: with a codec, a chunk shorter than 1024 bytes is written on the
\* calling context and creates no job, and a chunk of 1024 bytes or more is
\* never written on the calling context but moved into exactly one job.
C15_ThresholdDecidesPath ==
    /\ \A i \in DOMAIN obs.written :
           obs.where[i] = "inline" <=> IsSmall(obs.written[i])
    /\ \A i \in DOMAIN obs.spawned : IsLarge(obs.spawned[i])
    /\ Len(obs.spawned) = obs.jobs
    /\ (obs.installed /\ FailureFree /\ ~obs.polledAfterEnd) =>
           /\ WrittenInline = SelectSeq(obs.srcChunks, IsSmall)
           /\ obs.spawned = SelectSeq(obs.srcChunks, IsLarge)

C15_Witness ==
    /\ obs.installed /\ FailureFree /\ ~obs.polledAfterEnd
    /\ \E i, j \in DOMAIN obs.written :
           /\ obs.written[i].len = 0 /\ obs.where[i] = "inline"
           /\ obs.written[j].len = 1023 /\ obs.where[j] = "inline"
    /\ \E i \in DOMAIN obs.spawned : obs.spawned[i].len = 1024
    /\ fut.some /\ fut.val.state = "running"

\* C16: a poll that returns the end of the stream after the source has
\* reported its end leaves eof set, in particular when finish returned no
\* bytes.
C16_EndSetsEof ==
    (last.ret.type = "End" /\ obs.srcEnded) => eof

\* The body source has been polled at least once.
SourcePolled == obs.srcEnded \/ obs.srcChunks # <<>>

\* C17: the Bytes variant yields its buffer at most once: polled, it has
\* reported the whole buffer as one chunk if the buffer was not empty and
\* nothing otherwise, it holds no bytes afterwards, and it never reports a
\* failure or that it is not ready.
C17_BytesYieldedOnce ==
    (stage = "Encoder" /\ body.variant = "Bytes") =>
        /\ obs.srcChunks = IF SourcePolled /\ ~IsEmpty(request.body.buf)
                           THEN <<request.body.buf>> ELSE <<>>
        /\ body.b = IF SourcePolled THEN EmptyBytes ELSE request.body.buf
        /\ last.now.srcReported \in {"", "Chunk", "End"}
        /\ (obs.srcChunks # <<>> /\ last.now.srcPolled
               /\ last.now.srcReported = "Chunk") => ~obs.srcEnded

C17_Witness ==
    /\ stage = "Encoder" /\ body.variant = "Bytes" /\ obs.installed
    /\ obs.srcChunks = <<request.body.buf>>
    /\ obs.polledAfterEnd
    /\ last.ret.type = "End"

\* C18: between the steps of an encoder installed with a codec, before any
\* failure and before the codec is finished, the codec is in exactly one
\* place: held by the encoder, or owned by the one job in the slot.
C18_CodecInOnePlace ==
    (/\ stage = "Encoder" /\ obs.installed /\ obs.finishCalls = 0
     /\ obs.errors = <<>> /\ last.ret.type # "Panic") =>
        /\ encoder.some # fut.some
        /\ encoder.some => obs.outstanding = 0

C18_Witness ==
    /\ stage = "Encoder" /\ obs.installed /\ FailureFree /\ obs.finishCalls = 0
    /\ obs.jobs >= 2
    /\ encoder.some /\ ~fut.some
    /\ last.now.futAtEntry = "ok"

\* C20: size() of an encoder installed with a codec reports an unknown
\* length in every state of the stream, a job in the slot included.
C20_InstalledSizeIsStream ==
    (stage = "Encoder" /\ obs.installed) =>
        EncoderSize(encoder, body) = BodySizeStream

\* C19: with a finite source that reaches its end, jobs that complete and
\* no failure, an encoder polled again after every Pending returns the end
\* of the stream, having returned at most one chunk per source chunk and
\* one for the codec's last bytes.
C19_EventuallyEnd ==
    /\ (stage = "Encoder") ~> (last.ret.type = "End")
    /\ [](Len(obs.emitted) <= Len(obs.srcChunks) + obs.finishCalls)

C19_Witness ==
    /\ stage = "Encoder" /\ obs.installed
    /\ last.ret.type = "End"
    /\ obs.jobs >= 1
    /\ Len(obs.emitted) >= 2
    /\ last.now.eofAtEntry

====
